---- MODULE Spec2Model ----
(***************************************************************************)
(* GazeboPhysicsWorld: the adaptor that drives a simulator-owned           *)
(* gazebo::physics::World through the PhysicsEngineWorld interface.        *)
(*                                                                         *)
(* The state is the set of simulator-owned worlds (gz) and, per adaptor,   *)
(* the three data members of GazeboPhysicsWorld: world, paused and         *)
(* enforceContactComputation.  The build defines CONTACTS_ENFORCABLE and   *)
(* NEW_WORLDRUN_SOLUTION, so those branches of the source are modelled.    *)
(***************************************************************************)
EXTENDS Integers, Sequences, FiniteSets, TLC

\* ------------------------------------------------------------------ bounds
MaxIter == 2
MaxSteps == 2
MaxPose == 1
MaxPoints == 2

\* --------------------------------------------------------------- universe
Adaptors == {"a1", "a2"}
Worlds == {"w1", "w2"}
NULL == "null"
Names == {"A", "B"}
NameOrder == <<"A", "B", "C", "ground_plane">>
Poses == 0..MaxPose

\* gz: the simulator's worlds; world, paused, enforceContactComputation: the
\* members of each GazeboPhysicsWorld; call: the latest call and its result;
\* alive: the process has not dereferenced a null world; held: the native
\* contact pointers a caller of GetNativeContacts still holds; pc: where the
\* call in progress on each adaptor stands; round: where the world manager's
\* round of updates stands.
VARIABLES gz, world, paused, enforceContactComputation, call, alive, held,
          pc, round

vars == <<gz, world, paused, enforceContactComputation, call, alive, held,
          pc, round>>

\* ------------------------------------------------------- pointer helpers
\* A shared pointer is the object it points to and the library whose
\* reference count owns it; the conversions of boost_std_conversion.hh
\* re-wrap the pointer and keep the pointee.
StdPtr(o) == [obj |-> o, lib |-> "std"]

to_boost_ptr(p) == [obj |-> p.obj, lib |-> "boost"]

to_std_ptr(p) == [obj |-> p.obj, lib |-> "std"]

Loaded(a) == world[a].obj # NULL

\* ---------------------------------------------------- the simulator side
\* One model of a world: its name, the position and the rotation of its pose
\* (one coordinate; a quarter turn about the vertical or none), its scale, the
\* name of its link, and whether it is static.  A model is made unturned, at
\* scale 1 and not static.
Model(n, p, l) ==
  [name |-> n, pose |-> p, rot |-> 0, scale |-> 1, link |-> l, static |-> FALSE]

ModelNames(w) == {gz[w].models[i].name : i \in 1..Len(gz[w].models)}

\* World::ModelByName: the index of the model called id, 0 when there is none.
ModelByName(w, id) ==
  IF id \in ModelNames(w)
  THEN CHOOSE i \in 1..Len(gz[w].models) : gz[w].models[i].name = id
  ELSE 0

\* A world as the simulator creates it from a scene: not yet run.  stepInc is
\* the number of iterations a Step still waits for; looped counts the
\* iterations of the world's own loop that no Step asked for.
NewWorld(ms, p) ==
  [models |-> ms, iterations |-> 0, paused |-> p, running |-> FALSE,
   enforce |-> FALSE, physicsEnabled |-> TRUE, contacts |-> <<>>,
   stepInc |-> 0, looped |-> 0]

Max(x, y) == IF x > y THEN x ELSE y

\* The physics engine's update of one model over n iterations: with dynamics
\* enabled a model above the ground falls one unit per iteration, unless it is
\* static.
Fall(m, n) ==
  IF m.pose > 0 /\ ~m.static THEN [m EXCEPT !.pose = Max(m.pose - n, 0)] ELSE m

\* The name AddModelFromShape gives the link of every model it makes, the name
\* of the link in the world file, and the name the link has in the SDF a
\* caller gives to the other Add* functions and in the states it sets.
ShapeLink == "link"

SceneLink == "link"

SdfLink == "base"

Abs(x) == IF x < 0 THEN -x ELSE x

\* gazebo::physics::Contact as the engine fills it for the models m and o at
\* time t: the two collisions, count, and the arrays of which the first count
\* entries are contact points.  Models at the same pose overlap, in two points
\* on the ground and in one above it; for models one unit apart the engine
\* makes the record and rejects every point.
NativeContact(m, o, t) ==
  [collision1 |-> [model |-> m.name, link |-> m.link],
   collision2 |-> [model |-> o.name, link |-> o.link],
   count |-> IF m.pose # o.pose THEN 0 ELSE IF m.pose = 0 THEN MaxPoints ELSE 1,
   positions |-> [i \in 1..MaxPoints |-> m.pose + i],
   normals |-> [i \in 1..MaxPoints |-> i],
   wrench |-> [i \in 1..MaxPoints |-> 10 * i],
   depths |-> [i \in 1..MaxPoints |-> MaxPoints - i],
   time |-> t]

\* Model::BoundingBox of a box model: it stands on its pose and is as high as
\* its scale.
BoundingBox(m) == [min |-> m.pose, max |-> m.pose + m.scale]

\* The pairs of models the engine makes a contact record for, those whose
\* boxes touch or overlap, in the order of the models.
RECURSIVE PairsFrom(_, _, _)
PairsFrom(ms, i, j) ==
  IF i >= Len(ms) THEN <<>>
  ELSE IF j > Len(ms) THEN PairsFrom(ms, i + 1, i + 2)
  ELSE (IF /\ BoundingBox(ms[i]).min <= BoundingBox(ms[j]).max
            /\ BoundingBox(ms[j]).min <= BoundingBox(ms[i]).max
         THEN <<<<i, j>>>> ELSE <<>>)
       \o PairsFrom(ms, i, j + 1)

\* World::UpdateCollision at time t: the contact manager is reset and, when
\* contacts are enforced, filled with the contacts of the models ms.
UpdateCollision(ms, enforce, t) ==
  IF enforce
  THEN LET ps == PairsFrom(ms, 1, 2)
       IN  [k \in 1..Len(ps) |-> NativeContact(ms[ps[k][1]], ms[ps[k][2]], t)]
  ELSE <<>>

\* n iterations of a world's run loop (World::Update n times): with dynamics
\* enabled each updates the collisions and then moves the models.
Iterate(g, n) ==
  [g EXCEPT !.iterations = g.iterations + n,
            !.models = IF g.physicsEnabled
                       THEN [i \in 1..Len(g.models) |-> Fall(g.models[i], n)]
                       ELSE g.models,
            !.contacts = IF g.physicsEnabled /\ n > 0
                         THEN UpdateCollision(
                                [i \in 1..Len(g.models) |-> Fall(g.models[i], n - 1)],
                                g.enforce, g.iterations + n - 1)
                         ELSE g.contacts]

\* World::Step(n): the world is paused if it is not, and its run loop is asked
\* for n iterations (stepInc); the caller then blocks until the loop has done
\* them or is stopped.
Step(g, n) == [g EXCEPT !.paused = TRUE, !.stepInc = n]

\* One iteration of a world's run loop: it answers a pending Step, or else is
\* an iteration of the world's own (looped).
RunLoopStep(g) ==
  IF g.stepInc > 0
  THEN [Iterate(g, 1) EXCEPT !.stepInc = @ - 1]
  ELSE [Iterate(g, 1) EXCEPT !.looped = @ + 1]

\* Iterations a world's own run loop may still complete while a caller is
\* pausing or stopping it: none when it is paused or stopped already.
InFlight(g) ==
  IF g.running /\ ~g.paused /\ g.iterations < MaxIter THEN {0, 1} ELSE {0}

\* ----------------------------------------------------------- world states
\* gazebo::physics::WorldState: the model states by name, and the insertions
\* and deletions of a differential state.
WorldState(ps, ins, del) == [poses |-> ps, insertions |-> ins, deletions |-> del]

PoseOf(g, n) ==
  LET i == CHOOSE j \in 1..Len(g.models) : g.models[j].name = n
  IN  g.models[i].pose

NamesOf(g) == {g.models[i].name : i \in 1..Len(g.models)}

\* gazebo::physics::WorldState(world)
StateOf(g) == WorldState([n \in NamesOf(g) |-> PoseOf(g, n)], {}, {})

\* WorldState::operator- : s - t.  Models of both keep the pose difference when
\* it is not zero, models only in s are insertions, models only in t deletions.
Minus(s, t) ==
  LET common == DOMAIN s.poses \cap DOMAIN t.poses
      changed == {n \in common : s.poses[n] - t.poses[n] # 0}
      added == DOMAIN s.poses \ DOMAIN t.poses
  IN  WorldState([n \in changed \cup added |->
                    IF n \in common THEN s.poses[n] - t.poses[n] ELSE s.poses[n]],
                 added, DOMAIN t.poses \ DOMAIN s.poses)

\* collision_benchmark::SetWorldState(world, state): the world's models become
\* those of state, each at the pose state gives it.  Models of the world that
\* state does not name are removed, models it names that the world lacks are
\* inserted after the others.
HelperSetWorldState(g, state) ==
  LET keep == SelectSeq(g.models, LAMBDA m : m.name \in DOMAIN state.poses)
      kept == [i \in 1..Len(keep) |->
                 [keep[i] EXCEPT !.pose = state.poses[keep[i].name]]]
      fresh == SelectSeq(NameOrder,
                         LAMBDA n : n \in DOMAIN state.poses /\ n \notin NamesOf(g))
      new == [i \in 1..Len(fresh) |-> Model(fresh[i], state.poses[fresh[i]], SdfLink)]
  IN  [g EXCEPT !.models = kept \o new]

\* collision_benchmark::ClearModels(world)
ClearModels(g) == [g EXCEPT !.models = <<>>]

\* collision_benchmark::LoadModelFromSDF(sdf, world, name): the world with the
\* model added; a model whose name is taken, or whose SDF does not load, is not
\* added and the loader yields no model.
CanLoadModel(g, n, ok) == ok /\ n # "" /\ n \notin NamesOf(g)

LoadModelFromSDF(g, n, p, l) ==
  [g EXCEPT !.models = Append(g.models, Model(n, p, l))]

\* -------------------------------------------------------- adaptor helpers
\* BasicState: a position, a rotation and a scale, each enabled or not.
BasicState(pe, p, re, r, se, sc) ==
  [PosEnabled |-> pe, position |-> p, RotEnabled |-> re, rotation |-> r,
   ScaleEnabled |-> se, scale |-> sc]

\* The record of a call: the function, the adaptor, what it returned, and for
\* a Clear the models the world held when it was called.
Call(op, a, r) == [op |-> op, self |-> a, ret |-> r, cleared |-> <<>>]

\* The position of an adaptor's caller: in no call, or inside the call op at
\* "wait" (LoadFrom* in WaitForNamespace; res is the world the loader made),
\* "stop", "setpaused", "run" (SetWorld before world->Stop, world->SetPaused
\* and world->Run of PostWorldLoaded), "pause" (Update before
\* world->SetPaused), "step" (Update before world->Step(steps)), "block"
\* (Update blocked in world->Step), "pose" (SetBasicModelState before
\* m->SetWorldPose), "scale" (SetBasicModelState before m->SetScale), "rpose"
\* (GetBasicModelState before m->WorldPose), "rscale" (GetBasicModelState
\* before m->Scale), "remove" (RemoveModel before world->RemoveModel), "ids"
\* (GetAllModelIDs before a world->ModelByIndex) or "box" (GetAABB before
\* m->BoundingBox).  it0 and looped0 are the world's counts when the call was
\* made.  id is the name of the model whose ModelPtr the call holds; gone
\* says that this model has been removed from its world since, and obj is
\* then the model, which the pointer keeps.  pose is the local pose, scaleOn
\* and scale the ScaleEnabled and scale of the state of SetBasicModelState.
\* numModels and names are the locals of GetAllModelIDs.
NoModel == Model("", 0, "")

NoCall ==
  [at |-> "idle", op |-> "", steps |-> 0, res |-> NULL, it0 |-> 0, looped0 |-> 0,
   id |-> "", gone |-> FALSE, obj |-> NoModel,
   pose |-> [pos |-> 0, rot |-> 0], scaleOn |-> FALSE, scale |-> 0,
   numModels |-> 0, names |-> <<>>]

Idle(a) == pc[a].at = "idle"

\* The world manager's round: idle, or past its Update on adaptor at; start
\* and looped are the worlds' counts when the round began and seen is what
\* IsPaused() was on each adaptor when its Update was called.
NoRound ==
  [at |-> "idle", steps |-> 0, force |-> FALSE,
   start |-> [a \in Adaptors |-> 0], looped |-> [a \in Adaptors |-> 0],
   seen |-> [a \in Adaptors |-> FALSE]]

\* A call that dereferences the null world pointer ends the process.
Abort(op, a) ==
  /\ alive' = FALSE
  /\ call' = Call(op, a, "abort")
  /\ UNCHANGED <<gz, world, paused, enforceContactComputation, held, pc, round>>

\* The positions of the calls that read or write through a ModelPtr they
\* hold, and the positions of every caller once the models of world w have
\* changed from those of g to those of g2: a model that was removed stays with
\* the callers that hold it.
HoldsModel == {"pose", "scale", "rpose", "rscale", "box"}

Unlinked(w, g, g2) ==
  [b \in Adaptors |->
     IF /\ world[b].obj = w
        /\ pc[b].at \in HoldsModel
        /\ ~pc[b].gone
        /\ pc[b].id \in NamesOf(g) \ NamesOf(g2)
     THEN [pc[b] EXCEPT
             !.gone = TRUE,
             !.obj = g.models[CHOOSE i \in 1..Len(g.models) :
                                g.models[i].name = pc[b].id]]
     ELSE pc[b]]

\* The model the caller of adaptor a holds.
HeldModel(a) ==
  IF pc[a].gone THEN pc[a].obj
  ELSE gz[world[a].obj].models[ModelByName(world[a].obj, pc[a].id)]

\* ---------------------------------------------------------------- queries
IsAdaptor(a) == TRUE

GetWorld(a) == to_std_ptr(world[a])

IsPaused(a) == paused[a]

\* World::ModelCount, and World::ModelByIndex(i) for an index below it (the
\* first index is 0); past the end ModelByIndex returns a null pointer.
ModelCount(w) == Len(gz[w].models)

ModelByIndex(w, i) == gz[w].models[i + 1]

GetWorldState(a) == StateOf(gz[world[a].obj])

GetWorldStateDiff(a, other) == Minus(other, GetWorldState(a))

\* GetName(): the name of the wrapped world.
GetName(a) == world[a].obj

\* GetModel(id): the model called id, as a std pointer; null when there is none.
GetModel(a, id) ==
  LET i == ModelByName(world[a].obj, id)
  IN  to_std_ptr([obj |-> IF i = 0 THEN NULL ELSE gz[world[a].obj].models[i],
                  lib |-> "boost"])

\* ---------------------------------------------------------------- contacts
\* collision_benchmark::Contact made of entry i of a native contact's arrays.
Contact(c, i) ==
  [position |-> c.positions[i], normal |-> c.normals[i],
   wrench |-> c.wrench[i], depth |-> c.depths[i]]

\* The ContactInfo built for the native contact c: its model and link names
\* and its first count contact points.
ContactInfo(c) ==
  [model1 |-> c.collision1.model, link1 |-> c.collision1.link,
   model2 |-> c.collision2.model, link2 |-> c.collision2.link,
   contacts |-> [i \in 1..c.count |-> Contact(c, i)]]

\* The filter of both helpers: with m1 and m2 given a contact is skipped unless
\* its two models are m1 and m2 in either order, with only m1 given unless one
\* of its models is m1.  NULL stands for a pointer that is not given.
Skipped(c, m1, m2) ==
  LET m1Name == c.collision1.model
      m2Name == c.collision2.model
  IN  /\ m1 # NULL
      /\ IF m2 # NULL
         THEN (m1 # m1Name \/ m2 # m2Name) /\ (m1 # m2Name \/ m2 # m1Name)
         ELSE m1 # m1Name /\ m1 # m2Name

\* GetContactInfoHelper that copies the whole arrays of a contact.
GetContactInfoHelper_wholeArrays(g, m1, m2) ==
  LET cs == SelectSeq(g.contacts, LAMBDA c : ~Skipped(c, m1, m2))
      infos == [k \in 1..Len(cs) |->
                  [ContactInfo(cs[k]) EXCEPT
                     !.contacts = [i \in 1..MaxPoints |-> Contact(cs[k], i)]]]
  IN  SelectSeq(infos, LAMBDA e : e.contacts # <<>>)

\* GetContactInfoHelper that copies the first contact point only.
GetContactInfoHelper_firstPoint(g, m1, m2) ==
  LET cs == SelectSeq(g.contacts, LAMBDA c : ~Skipped(c, m1, m2))
      infos == [k \in 1..Len(cs) |->
                  [ContactInfo(cs[k]) EXCEPT
                     !.contacts = IF @ = <<>> THEN @ ELSE <<@[1]>>]]
  IN  SelectSeq(infos, LAMBDA e : e.contacts # <<>>)

\* GetContactInfoHelper(world, m1, m2): an entry for each contact of the
\* contact manager that is not skipped, unless the entry has no contact point.
GetContactInfoHelper(g, m1, m2) ==
  LET cs == SelectSeq(g.contacts, LAMBDA c : ~Skipped(c, m1, m2))
      infos == [k \in 1..Len(cs) |-> ContactInfo(cs[k])]
  IN  SelectSeq(infos, LAMBDA e : e.contacts # <<>>)

\* The deleter of a pointer that owns its contact: the contact is destroyed.
null_deleter_deletes(cs, c) == SelectSeq(cs, LAMBDA x : x # c)

\* null_deleter(c) on a contact manager holding the contacts cs: nothing.
null_deleter(cs, c) == cs

\* The shared pointer GetNativeContactsHelper makes for contact c of world w.
NativeContactPtr(w, c) ==
  [obj |-> [world |-> w, contact |-> c], deleter |-> "null_deleter"]

\* GetNativeContactsHelper(world, m1, m2)
GetNativeContactsHelper(w, m1, m2) ==
  LET cs == SelectSeq(gz[w].contacts, LAMBDA c : ~Skipped(c, m1, m2))
  IN  [k \in 1..Len(cs) |-> NativeContactPtr(w, cs[k])]

\* The contacts cs of a world after the pointers ps to them are released: the
\* deleter of each runs once.
RECURSIVE Released(_, _)
Released(cs, ps) ==
  IF ps = {} THEN cs
  ELSE LET p == CHOOSE q \in ps : TRUE
       IN  Released(null_deleter(cs, p.obj.contact), ps \ {p})

GetContactInfo(a) == GetContactInfoHelper(gz[world[a].obj], NULL, NULL)

GetContactInfo2(a, m1, m2) == GetContactInfoHelper(gz[world[a].obj], m1, m2)

GetNativeContacts(a) == GetNativeContactsHelper(world[a].obj, NULL, NULL)

GetNativeContacts2(a, m1, m2) == GetNativeContactsHelper(world[a].obj, m1, m2)

\* The model the world file includes as model://ground_plane: static, on the
\* ground, with the link "link".
GroundPlane == [Model("ground_plane", 0, "link") EXCEPT !.static = TRUE]

\* The scene of the world files loaded here: the box model (A) above the
\* ground, and the ground plane the file includes after it.
Scene == <<Model("A", MaxPose, SceneLink), GroundPlane>>

\* ------------------------------------------------------------------- Init
Init ==
  /\ gz = [w \in Worlds |-> NewWorld(<<>>, FALSE)]
  /\ world = [a \in Adaptors |-> to_boost_ptr(StdPtr(NULL))]
  /\ paused = [a \in Adaptors |-> FALSE]
  /\ \E e \in BOOLEAN : enforceContactComputation = [a \in Adaptors |-> e]
  /\ call = Call("new", "a1", "none")
  /\ alive = TRUE
  /\ held = {}
  /\ pc = [a \in Adaptors |-> NoCall]
  /\ round = NoRound

\* ---------------------------------------------------------------- actions
\* DoSetWorld that keeps the world an adaptor wraps already.
DoSetWorld_keepsOld(a, p, op) ==
  /\ p.obj # NULL
  /\ world' = IF Loaded(a) THEN world ELSE [world EXCEPT ![a] = to_boost_ptr(p)]
  /\ gz' = [gz EXCEPT ![world'[a].obj].enforce = enforceContactComputation[a]]
  /\ pc' = [pc EXCEPT ![a] = [NoCall EXCEPT !.at = "stop", !.op = op,
                                             !.res = pc[a].res]]
  /\ call' = Call(op, a, "pending")
  /\ UNCHANGED <<paused, enforceContactComputation, alive, held, round>>

\* DoSetWorld that does not apply the stored contact-enforcement flag.
DoSetWorld_noEnforce(a, p, op) ==
  IF p.obj = NULL
  THEN /\ alive' = FALSE
       /\ world' = [world EXCEPT ![a] = to_boost_ptr(p)]
       /\ call' = Call(op, a, "abort")
       /\ pc' = [pc EXCEPT ![a] = NoCall]
       /\ UNCHANGED <<gz, paused, enforceContactComputation, held, round>>
  ELSE /\ world' = [world EXCEPT ![a] = to_boost_ptr(p)]
       /\ pc' = [pc EXCEPT ![a] = [NoCall EXCEPT !.at = "stop", !.op = op,
                                             !.res = pc[a].res]]
       /\ call' = Call(op, a, "pending")
       /\ UNCHANGED <<gz, paused, enforceContactComputation, alive, held, round>>

\* The first part of SetWorld, inside the call op: the world pointer is
\* assigned and SetEnforceContactsComputation applies the stored flag to the
\* contact manager of the new world; a null world is dereferenced there.  The
\* caller goes on to PostWorldLoaded.
DoSetWorld(a, p, op) ==
  IF p.obj = NULL
  THEN /\ alive' = FALSE
       /\ world' = [world EXCEPT ![a] = to_boost_ptr(p)]
       /\ call' = Call(op, a, "abort")
       /\ pc' = [pc EXCEPT ![a] = NoCall]
       /\ UNCHANGED <<gz, paused, enforceContactComputation, held, round>>
  ELSE /\ world' = [world EXCEPT ![a] = to_boost_ptr(p)]
       /\ gz' = [gz EXCEPT ![p.obj].enforce = enforceContactComputation[a]]
       /\ pc' = [pc EXCEPT ![a] = [NoCall EXCEPT !.at = "stop", !.op = op,
                                             !.res = pc[a].res]]
       /\ call' = Call(op, a, "pending")
       /\ UNCHANGED <<paused, enforceContactComputation, alive, held, round>>

SetWorld(a, p) ==
  /\ alive /\ Idle(a)
  /\ DoSetWorld(a, p, "SetWorld")

\* World::Stop on world record g: the run loop ends; k is the number of
\* iterations in flight that it completes first.
Stop(g, k) == [Iterate(g, k) EXCEPT !.running = FALSE, !.looped = @ + k]

\* World::Run(0) on world record g: the run loop is started.
Run(g) == [g EXCEPT !.running = TRUE]

\* PostWorldLoaded in progress: world->Stop().
PostWorldLoadedStop(a) ==
  /\ alive
  /\ pc[a].at = "stop"
  /\ \E k \in InFlight(gz[world[a].obj]) :
       gz' = [gz EXCEPT ![world[a].obj] = Stop(@, k)]
  /\ pc' = [pc EXCEPT ![a].at = "setpaused"]
  /\ UNCHANGED <<world, paused, enforceContactComputation, call, alive, held, round>>

\* PostWorldLoaded in progress: world->SetPaused(true).
PostWorldLoadedPause(a) ==
  /\ alive
  /\ pc[a].at = "setpaused"
  /\ gz' = [gz EXCEPT ![world[a].obj].paused = TRUE]
  /\ pc' = [pc EXCEPT ![a].at = "run"]
  /\ UNCHANGED <<world, paused, enforceContactComputation, call, alive, held, round>>

\* PostWorldLoaded in progress: world->Run(0); then SetWorld returns
\* REFERENCED and a LoadFrom* that called it SUCCESS.
PostWorldLoadedRun(a) ==
  /\ alive
  /\ pc[a].at = "run"
  /\ gz' = [gz EXCEPT ![world[a].obj] = Run(@)]
  /\ pc' = [pc EXCEPT ![a] = NoCall]
  /\ call' = Call(pc[a].op, a,
                  IF pc[a].op = "SetWorld" THEN "REFERENCED" ELSE "SUCCESS")
  /\ UNCHANGED <<world, paused, enforceContactComputation, alive, held, round>>

\* The entry of a LoadFrom*: the loader makes the world res from the scene
\* (NULL: it yields no world and the call returns FAILED), and the caller
\* enters the wait for the world's namespace.  A world the loader makes is one
\* no adaptor wraps and no other load is waiting for.
DoLoad(op, a, res, scene) ==
  IF res = NULL
  THEN /\ call' = Call(op, a, "FAILED")
       /\ UNCHANGED <<gz, world, paused, enforceContactComputation, alive, held, pc, round>>
  ELSE /\ \A b \in Adaptors : world[b].obj # res /\ pc[b].res # res
       /\ gz' = [gz EXCEPT ![res] = NewWorld(scene, FALSE)]
       /\ pc' = [pc EXCEPT ![a] =
                   [NoCall EXCEPT !.at = "wait", !.op = op, !.res = res]]
       /\ call' = Call(op, a, "pending")
       /\ UNCHANGED <<world, paused, enforceContactComputation, alive, held, round>>

LoadFromSDF(a, res, scene) ==
  /\ alive /\ Idle(a)
  /\ DoLoad("LoadFromSDF", a, res, scene)

LoadFromFile(a, res, scene) ==
  /\ alive /\ Idle(a)
  /\ DoLoad("LoadFromFile", a, res, scene)

LoadFromString(a, res, scene) ==
  /\ alive /\ Idle(a)
  /\ DoLoad("LoadFromString", a, res, scene)

\* WaitForNamespace after which LoadFrom* reports SUCCESS without installing
\* the world.
WaitForNamespace_noInstall(a, nsOk) ==
  /\ alive
  /\ pc[a].at = "wait"
  /\ pc' = [pc EXCEPT ![a] = NoCall]
  /\ call' = Call(pc[a].op, a, IF nsOk THEN "SUCCESS" ELSE "FAILED")
  /\ UNCHANGED <<gz, world, paused, enforceContactComputation, alive, held, round>>

\* The end of the namespace wait of the LoadFrom* in progress on adaptor a.
\* nsOk: OnLoadWaitForNamespace is off or WaitForNamespace found the namespace
\* in time; then the call goes on to SetWorld(world), else it returns FAILED.
WaitForNamespace(a, nsOk) ==
  /\ alive
  /\ pc[a].at = "wait"
  /\ IF ~nsOk
     THEN /\ call' = Call(pc[a].op, a, "FAILED")
          /\ pc' = [pc EXCEPT ![a] = NoCall]
          /\ UNCHANGED <<gz, world, paused, enforceContactComputation, alive, held, round>>
     ELSE DoSetWorld(a, StdPtr(pc[a].res), pc[a].op)

ModelLoadResult(r, id) == [opResult |-> r, modelID |-> id]

\* AddModelFromSDF(sdf, modelname): n, p and l are the name, the pose and the
\* link name the SDF gives, ok says that the SDF loads.
DoAddModel(op, a, n, p, l, ok) ==
  IF ~Loaded(a)
  THEN Abort(op, a)
  ELSE LET w == world[a].obj
       IN  /\ IF CanLoadModel(gz[w], n, ok)
              THEN /\ gz' = [gz EXCEPT ![w] = LoadModelFromSDF(@, n, p, l)]
                   /\ call' = Call(op, a, ModelLoadResult("SUCCESS", n))
              ELSE /\ gz' = gz
                   /\ call' = Call(op, a, ModelLoadResult("FAILED", ""))
           /\ UNCHANGED <<world, paused, enforceContactComputation, alive, held, pc, round>>

AddModelFromSDF(a, n, p, ok) ==
  /\ alive /\ Idle(a)
  /\ DoAddModel("AddModelFromSDF", a, n, p, SdfLink, ok)

\* AddModelFromShape(modelname, shape): an empty name fails before the SDF is
\* built; p is the pose of the shape.  The SDF built names the link "link",
\* whatever the model is called.
AddModelFromShape(a, n, p) ==
  /\ alive /\ Idle(a)
  /\ IF n = ""
     THEN /\ call' = Call("AddModelFromShape", a, ModelLoadResult("FAILED", ""))
          /\ UNCHANGED <<gz, world, paused, enforceContactComputation, alive, held, pc, round>>
     ELSE DoAddModel("AddModelFromShape", a, n, p, ShapeLink, TRUE)

\* AddModelFromFile(filename, modelname): found says that the file holds the
\* SDF of a model.
AddModelFromFile(a, n, p, found, ok) ==
  /\ alive /\ Idle(a)
  /\ IF ~found
     THEN /\ call' = Call("AddModelFromFile", a, ModelLoadResult("FAILED", ""))
          /\ UNCHANGED <<gz, world, paused, enforceContactComputation, alive, held, pc, round>>
     ELSE DoAddModel("AddModelFromFile", a, n, p, SdfLink, ok)

\* AddModelFromString(str, modelname): checkSDF is the result of
\* isProperSDFString (-2: the string lacks the sdf wrapper, which is added).
AddModelFromString(a, n, p, checkSDF, found, ok) ==
  /\ alive /\ Idle(a)
  /\ IF (checkSDF < 0 /\ checkSDF # -2) \/ ~found
     THEN /\ call' = Call("AddModelFromString", a, ModelLoadResult("FAILED", ""))
          /\ UNCHANGED <<gz, world, paused, enforceContactComputation, alive, held, pc, round>>
     ELSE DoAddModel("AddModelFromString", a, n, p, SdfLink, ok)

\* The entry of RemoveModel(id): world->ModelByName(id); false when there is
\* no such model, else the caller holds the model.
RemoveModel(a, id) ==
  /\ alive /\ Idle(a)
  /\ IF ~Loaded(a)
     THEN Abort("RemoveModel", a)
     ELSE /\ IF ModelByName(world[a].obj, id) = 0
             THEN /\ call' = Call("RemoveModel", a, FALSE)
                  /\ pc' = pc
             ELSE /\ call' = Call("RemoveModel", a, "pending")
                  /\ pc' = [pc EXCEPT ![a] =
                              [NoCall EXCEPT !.at = "remove", !.op = "RemoveModel",
                                             !.id = id]]
          /\ UNCHANGED <<gz, world, paused, enforceContactComputation, alive, held, round>>

\* World::RemoveModel(m) on world record g for a model m called n: the world
\* removes the model of that name, if it has one.
WorldRemoveModel(g, n) ==
  [g EXCEPT !.models = SelectSeq(@, LAMBDA m : m.name # n)]

\* RemoveModel in progress that removes the first model of the world,
\* whatever its name.
RemoveModelRemove_first(a) ==
  /\ alive
  /\ pc[a].at = "remove"
  /\ gz' = [gz EXCEPT ![world[a].obj].models = IF @ = <<>> THEN @ ELSE Tail(@)]
  /\ pc' = [Unlinked(world[a].obj, gz[world[a].obj], gz'[world[a].obj])
              EXCEPT ![a] = NoCall]
  /\ call' = Call("RemoveModel", a, TRUE)
  /\ UNCHANGED <<world, paused, enforceContactComputation, alive, held, round>>

\* RemoveModel in progress: world->RemoveModel(m), and the call returns true
\* whatever the world did.
RemoveModelRemove(a) ==
  /\ alive
  /\ pc[a].at = "remove"
  /\ gz' = [gz EXCEPT ![world[a].obj] = WorldRemoveModel(@, pc[a].id)]
  /\ pc' = [Unlinked(world[a].obj, gz[world[a].obj], gz'[world[a].obj])
              EXCEPT ![a] = NoCall]
  /\ call' = Call("RemoveModel", a, TRUE)
  /\ UNCHANGED <<world, paused, enforceContactComputation, alive, held, round>>

\* Clear that returns without clearing.
Clear_nothing(a) ==
  /\ alive /\ Idle(a)
  /\ Loaded(a)
  /\ call' = [Call("Clear", a, "void") EXCEPT !.cleared = gz[world[a].obj].models]
  /\ UNCHANGED <<gz, world, paused, enforceContactComputation, alive, held, pc, round>>

\* Clear that clears every world of the simulator.
Clear_everyWorld(a) ==
  /\ alive /\ Idle(a)
  /\ Loaded(a)
  /\ gz' = [w \in Worlds |-> ClearModels(gz[w])]
  /\ call' = [Call("Clear", a, "void") EXCEPT !.cleared = gz[world[a].obj].models]
  /\ UNCHANGED <<world, paused, enforceContactComputation, alive, held, pc, round>>

Clear(a) ==
  /\ alive /\ Idle(a)
  /\ IF ~Loaded(a)
     THEN Abort("Clear", a)
     ELSE /\ gz' = [gz EXCEPT ![world[a].obj] = ClearModels(@)]
          /\ call' = [Call("Clear", a, "void") EXCEPT
                        !.cleared = gz[world[a].obj].models]
          /\ pc' = Unlinked(world[a].obj, gz[world[a].obj], gz'[world[a].obj])
          /\ UNCHANGED <<world, paused, enforceContactComputation, alive, held, round>>

\* SetWorldState(state, isDiff): isDiff is not read.
SetWorldState(a, state, isDiff) ==
  /\ alive /\ Idle(a)
  /\ IF ~Loaded(a)
     THEN Abort("SetWorldState", a)
     ELSE /\ gz' = [gz EXCEPT ![world[a].obj] = HelperSetWorldState(@, state)]
          /\ call' = Call("SetWorldState", a, "SUCCESS")
          /\ pc' = Unlinked(world[a].obj, gz[world[a].obj], gz'[world[a].obj])
          /\ UNCHANGED <<world, paused, enforceContactComputation, alive, held, round>>

\* DoUpdate that does not read the adaptor's paused flag.
DoUpdate_ignoresPaused(a, steps, force) ==
  IF ~Loaded(a)
  THEN Abort("Update", a)
  ELSE /\ gz[world[a].obj].iterations + steps <= MaxIter
       /\ pc' = [pc EXCEPT ![a] =
                   [NoCall EXCEPT
                      !.at = IF gz[world[a].obj].paused THEN "step" ELSE "pause",
                      !.op = "Update", !.steps = steps,
                      !.it0 = gz[world[a].obj].iterations,
                      !.looped0 = gz[world[a].obj].looped]]
       /\ call' = Call("Update", a, "pending")
       /\ UNCHANGED <<gz, world, paused, enforceContactComputation, alive, held>>

\* The entry of Update(steps, force): it returns when the adaptor is paused
\* and force is not given; else it reads world->IsPaused() and goes on to
\* pause the world, or to step it when it is paused already.
DoUpdate(a, steps, force) ==
  IF ~force /\ IsPaused(a)
  THEN /\ call' = Call("Update", a, "void")
       /\ UNCHANGED <<gz, world, paused, enforceContactComputation, alive, held, pc>>
  ELSE IF ~Loaded(a)
  THEN Abort("Update", a)
  ELSE /\ gz[world[a].obj].iterations + steps <= MaxIter
       /\ pc' = [pc EXCEPT ![a] =
                   [NoCall EXCEPT
                      !.at = IF gz[world[a].obj].paused THEN "step" ELSE "pause",
                      !.op = "Update", !.steps = steps,
                      !.it0 = gz[world[a].obj].iterations,
                      !.looped0 = gz[world[a].obj].looped]]
       /\ call' = Call("Update", a, "pending")
       /\ UNCHANGED <<gz, world, paused, enforceContactComputation, alive, held>>

\* Update(steps, force) called by the adaptor's own caller.
Update(a, steps, force) ==
  /\ alive /\ Idle(a)
  /\ DoUpdate(a, steps, force)
  /\ UNCHANGED round

\* Update in progress: world->SetPaused(true).
UpdatePause(a) ==
  /\ alive
  /\ pc[a].at = "pause"
  /\ gz' = [gz EXCEPT ![world[a].obj].paused = TRUE]
  /\ pc' = [pc EXCEPT ![a].at = "step"]
  /\ UNCHANGED <<world, paused, enforceContactComputation, call, alive, held, round>>

\* UpdateStep that steps the world once whatever steps is.
UpdateStep_oneStep(a) ==
  /\ alive
  /\ pc[a].at = "step"
  /\ gz[world[a].obj].iterations + 1 <= MaxIter
  /\ gz' = [gz EXCEPT ![world[a].obj] = Step(@, 1)]
  /\ pc' = [pc EXCEPT ![a].at = "block"]
  /\ UNCHANGED <<world, paused, enforceContactComputation, call, alive, held, round>>

\* Update in progress: world->Step(steps) asks the run loop for the steps.
UpdateStep(a) ==
  /\ alive
  /\ pc[a].at = "step"
  /\ gz[world[a].obj].iterations + pc[a].steps <= MaxIter
  /\ gz' = [gz EXCEPT ![world[a].obj] = Step(@, pc[a].steps)]
  /\ pc' = [pc EXCEPT ![a].at = "block"]
  /\ UNCHANGED <<world, paused, enforceContactComputation, call, alive, held, round>>

\* Update in progress: world->Step(steps) has seen that the run loop did the
\* steps, or is stopped, and Update returns.
UpdateReturn(a) ==
  /\ alive
  /\ pc[a].at = "block"
  /\ gz[world[a].obj].stepInc = 0 \/ ~gz[world[a].obj].running
  /\ pc' = [pc EXCEPT ![a] = NoCall]
  /\ call' = Call("Update", a, "void")
  /\ UNCHANGED <<gz, world, paused, enforceContactComputation, alive, held, round>>

\* The entry of SetBasicModelState(id, state): false when there is no model
\* id; else the model's pose is read and the position and the rotation of
\* state, where enabled, are set in this local pose.
SetBasicModelState(a, id, state) ==
  /\ alive /\ Idle(a)
  /\ IF ~Loaded(a)
     THEN Abort("SetBasicModelState", a)
     ELSE LET w == world[a].obj
              i == ModelByName(w, id)
          IN  /\ IF i = 0
                 THEN /\ call' = Call("SetBasicModelState", a, FALSE)
                      /\ pc' = pc
                 ELSE /\ call' = Call("SetBasicModelState", a, "pending")
                      /\ pc' = [pc EXCEPT ![a] =
                                  [NoCall EXCEPT
                                     !.at = "pose", !.op = "SetBasicModelState",
                                     !.id = id,
                                     !.scaleOn = state.ScaleEnabled,
                                     !.scale = state.scale,
                                     !.pose = [pos |-> IF state.PosEnabled
                                                       THEN state.position
                                                       ELSE gz[w].models[i].pose,
                                               rot |-> IF state.RotEnabled
                                                       THEN state.rotation
                                                       ELSE gz[w].models[i].rot]]]
              /\ UNCHANGED <<gz, world, paused, enforceContactComputation, alive, held, round>>

\* Model::SetWorldPose and Model::SetScale on model m.
SetWorldPose(m, pose) == [m EXCEPT !.pose = pose.pos, !.rot = pose.rot]

SetScale(m, sc) == [m EXCEPT !.scale = sc]

\* The world record g in which the model called id has become m.
WithModel(g, id, m) ==
  [g EXCEPT !.models = [k \in 1..Len(g.models) |->
                          IF g.models[k].name = id THEN m ELSE g.models[k]]]

\* A write through the ModelPtr the caller of adaptor a holds makes the model
\* m of it and leaves the caller at next: the model is changed in its world,
\* or by itself when it has been removed from the world.
WriteHeld(a, m, next) ==
  IF pc[a].gone
  THEN /\ gz' = gz
       /\ pc' = [pc EXCEPT ![a] = IF next.at = "idle" THEN next
                                   ELSE [next EXCEPT !.obj = m]]
  ELSE /\ gz' = [gz EXCEPT ![world[a].obj] = WithModel(@, pc[a].id, m)]
       /\ pc' = [pc EXCEPT ![a] = next]

\* SetBasicModelState in progress: m->SetWorldPose(pose) writes the local
\* pose; the call returns true unless the state's scale is enabled.
SetBasicModelStatePose(a) ==
  /\ alive
  /\ pc[a].at = "pose"
  /\ IF pc[a].scaleOn
     THEN /\ WriteHeld(a, SetWorldPose(HeldModel(a), pc[a].pose),
                       [pc[a] EXCEPT !.at = "scale"])
          /\ call' = call
     ELSE /\ WriteHeld(a, SetWorldPose(HeldModel(a), pc[a].pose), NoCall)
          /\ call' = Call("SetBasicModelState", a, TRUE)
  /\ UNCHANGED <<world, paused, enforceContactComputation, alive, held, round>>

\* SetBasicModelState in progress: m->SetScale(s), and the call returns true.
SetBasicModelStateScale(a) ==
  /\ alive
  /\ pc[a].at = "scale"
  /\ WriteHeld(a, SetScale(HeldModel(a), pc[a].scale), NoCall)
  /\ call' = Call("SetBasicModelState", a, TRUE)
  /\ UNCHANGED <<world, paused, enforceContactComputation, alive, held, round>>

SetPaused(a, flag) ==
  /\ alive /\ Idle(a)
  /\ paused' = [paused EXCEPT ![a] = flag]
  /\ call' = Call("SetPaused", a, "void")
  /\ UNCHANGED <<gz, world, enforceContactComputation, alive, held, pc, round>>

SetEnforceContactsComputation(a, flag) ==
  /\ alive /\ Idle(a)
  /\ IF ~Loaded(a)
     THEN /\ alive' = FALSE
          /\ enforceContactComputation' = [enforceContactComputation EXCEPT ![a] = flag]
          /\ call' = Call("SetEnforceContactsComputation", a, "abort")
          /\ UNCHANGED <<gz, world, paused, held, pc, round>>
     ELSE /\ enforceContactComputation' = [enforceContactComputation EXCEPT ![a] = flag]
          /\ gz' = [gz EXCEPT ![world[a].obj].enforce = flag]
          /\ call' = Call("SetEnforceContactsComputation", a, "void")
          /\ UNCHANGED <<world, paused, alive, held, pc, round>>

SetDynamicsEnabled(a, flag) ==
  /\ alive /\ Idle(a)
  /\ gz' = IF Loaded(a) THEN [gz EXCEPT ![world[a].obj].physicsEnabled = flag] ELSE gz
  /\ call' = Call("SetDynamicsEnabled", a, "void")
  /\ UNCHANGED <<world, paused, enforceContactComputation, alive, held, pc, round>>

\* ---------------------------------------------------------------- queries
\* A const member that reads the world: r is what it returns.
Query(op, a, r) ==
  /\ call' = Call(op, a, r)
  /\ UNCHANGED <<gz, world, paused, enforceContactComputation, alive, held, pc, round>>

Call_GetWorldState(a) ==
  /\ alive /\ Idle(a)
  /\ IF Loaded(a) THEN Query("GetWorldState", a, GetWorldState(a))
     ELSE Abort("GetWorldState", a)

Call_GetWorldStateDiff(a, other) ==
  /\ alive /\ Idle(a)
  /\ IF Loaded(a) THEN Query("GetWorldStateDiff", a, GetWorldStateDiff(a, other))
     ELSE Abort("GetWorldStateDiff", a)

\* The entry of GetAllModelIDs(): world->ModelCount() is read; with no model
\* the empty vector is returned, else the caller goes on to read the models.
Call_GetAllModelIDs(a) ==
  /\ alive /\ Idle(a)
  /\ IF ~Loaded(a)
     THEN Abort("GetAllModelIDs", a)
     ELSE /\ IF ModelCount(world[a].obj) = 0
             THEN /\ call' = Call("GetAllModelIDs", a, <<>>)
                  /\ pc' = pc
             ELSE /\ call' = Call("GetAllModelIDs", a, "pending")
                  /\ pc' = [pc EXCEPT ![a] =
                              [NoCall EXCEPT !.at = "ids", !.op = "GetAllModelIDs",
                                             !.numModels = ModelCount(world[a].obj)]]
          /\ UNCHANGED <<gz, world, paused, enforceContactComputation, alive, held, round>>

\* GetAllModelIDs in progress: world->ModelByIndex(i) for the next index, and
\* the name of that model is appended; past the end of the world's models the
\* null pointer is dereferenced.  After numModels names the call returns them.
GetAllModelIDsByIndex(a) ==
  /\ alive
  /\ pc[a].at = "ids"
  /\ LET w == world[a].obj
         i == Len(pc[a].names)
     IN  IF i >= ModelCount(w)
         THEN Abort("GetAllModelIDs", a)
         ELSE LET names == Append(pc[a].names, ModelByIndex(w, i).name)
              IN  /\ IF Len(names) = pc[a].numModels
                     THEN /\ call' = Call("GetAllModelIDs", a, names)
                          /\ pc' = [pc EXCEPT ![a] = NoCall]
                     ELSE /\ call' = call
                          /\ pc' = [pc EXCEPT ![a].names = names]
                  /\ UNCHANGED <<gz, world, paused, enforceContactComputation, alive, held, round>>

\* The entry of GetBasicModelState(id, state): world->ModelByName(id); false
\* when there is no such model, else the caller holds the model.
Call_GetBasicModelState(a, id) ==
  /\ alive /\ Idle(a)
  /\ IF ~Loaded(a)
     THEN Abort("GetBasicModelState", a)
     ELSE /\ IF ModelByName(world[a].obj, id) = 0
             THEN /\ call' = Call("GetBasicModelState", a, [ok |-> FALSE])
                  /\ pc' = pc
             ELSE /\ call' = Call("GetBasicModelState", a, "pending")
                  /\ pc' = [pc EXCEPT ![a] =
                              [NoCall EXCEPT !.at = "rpose",
                                             !.op = "GetBasicModelState",
                                             !.id = id]]
          /\ UNCHANGED <<gz, world, paused, enforceContactComputation, alive, held, round>>

\* GetBasicModelState in progress: m->WorldPose() is read into the state.
GetBasicModelStatePose(a) ==
  /\ alive
  /\ pc[a].at = "rpose"
  /\ pc' = [pc EXCEPT ![a].at = "rscale",
                      ![a].pose = [pos |-> HeldModel(a).pose,
                                   rot |-> HeldModel(a).rot]]
  /\ UNCHANGED <<gz, world, paused, enforceContactComputation, call, alive, held, round>>

\* GetBasicModelState in progress: m->Scale() is read into the state, and the
\* call returns true with the position, the rotation and the scale read.
GetBasicModelStateScale(a) ==
  /\ alive
  /\ pc[a].at = "rscale"
  /\ pc' = [pc EXCEPT ![a] = NoCall]
  /\ call' = Call("GetBasicModelState", a,
                  [ok |-> TRUE, position |-> pc[a].pose.pos,
                   rotation |-> pc[a].pose.rot, scale |-> HeldModel(a).scale])
  /\ UNCHANGED <<gz, world, paused, enforceContactComputation, alive, held, round>>

\* The entry of GetAABB(id, min, max): world->ModelByName(id); false when
\* there is no such model, else the caller holds the model.
Call_GetAABB(a, id) ==
  /\ alive /\ Idle(a)
  /\ IF ~Loaded(a)
     THEN Abort("GetAABB", a)
     ELSE /\ IF ModelByName(world[a].obj, id) = 0
             THEN /\ call' = Call("GetAABB", a, [ok |-> FALSE])
                  /\ pc' = pc
             ELSE /\ call' = Call("GetAABB", a, "pending")
                  /\ pc' = [pc EXCEPT ![a] =
                              [NoCall EXCEPT !.at = "box", !.op = "GetAABB",
                                             !.id = id]]
          /\ UNCHANGED <<gz, world, paused, enforceContactComputation, alive, held, round>>

\* GetAABB in progress: m->BoundingBox() is read, and the call returns true
\* with the corners of the box.
GetAABBBox(a) ==
  /\ alive
  /\ pc[a].at = "box"
  /\ pc' = [pc EXCEPT ![a] = NoCall]
  /\ call' = Call("GetAABB", a,
                  [ok |-> TRUE, min |-> BoundingBox(HeldModel(a)).min,
                   max |-> BoundingBox(HeldModel(a)).max])
  /\ UNCHANGED <<gz, world, paused, enforceContactComputation, alive, held, round>>

Call_GetModel(a, id) ==
  /\ alive /\ Idle(a)
  /\ IF Loaded(a) THEN Query("GetModel", a, GetModel(a, id))
     ELSE Abort("GetModel", a)

Call_GetName(a) ==
  /\ alive /\ Idle(a)
  /\ IF Loaded(a) THEN Query("GetName", a, GetName(a))
     ELSE Abort("GetName", a)

Call_IsPaused(a) ==
  /\ alive /\ Idle(a)
  /\ Query("IsPaused", a, IsPaused(a))

\* GetContactInfo() that resets the contact manager it has read.
Call_GetContactInfo_resets(a) ==
  /\ alive /\ Idle(a)
  /\ IF Loaded(a)
     THEN /\ call' = Call("GetContactInfo", a, GetContactInfo(a))
          /\ gz' = [gz EXCEPT ![world[a].obj].contacts = <<>>]
          /\ UNCHANGED <<world, paused, enforceContactComputation, alive, held, pc, round>>
     ELSE Abort("GetContactInfo", a)

\* GetContactInfo()
Call_GetContactInfo(a) ==
  /\ alive /\ Idle(a)
  /\ IF Loaded(a) THEN Query("GetContactInfo", a, GetContactInfo(a))
     ELSE Abort("GetContactInfo", a)

\* GetContactInfo(m1, m2)
Call_GetContactInfo2(a, m1, m2) ==
  /\ alive /\ Idle(a)
  /\ IF Loaded(a) THEN Query("GetContactInfo(m1,m2)", a, GetContactInfo2(a, m1, m2))
     ELSE Abort("GetContactInfo(m1,m2)", a)

\* GetNativeContacts(): the caller keeps the pointers it is given, those of
\* one call at a time.
Call_GetNativeContacts(a) ==
  /\ alive /\ Idle(a)
  /\ held = {}
  /\ IF Loaded(a)
     THEN /\ call' = Call("GetNativeContacts", a, GetNativeContacts(a))
          /\ held' = held \cup {GetNativeContacts(a)[k] :
                                  k \in 1..Len(GetNativeContacts(a))}
          /\ UNCHANGED <<gz, world, paused, enforceContactComputation, alive, pc, round>>
     ELSE Abort("GetNativeContacts", a)

\* GetNativeContacts(m1, m2)
Call_GetNativeContacts2(a, m1, m2) ==
  /\ alive /\ Idle(a)
  /\ held = {}
  /\ IF Loaded(a)
     THEN /\ call' = Call("GetNativeContacts(m1,m2)", a, GetNativeContacts2(a, m1, m2))
          /\ held' = held \cup {GetNativeContacts2(a, m1, m2)[k] :
                                  k \in 1..Len(GetNativeContacts2(a, m1, m2))}
          /\ UNCHANGED <<gz, world, paused, enforceContactComputation, alive, pc, round>>
     ELSE Abort("GetNativeContacts(m1,m2)", a)

\* The caller releases every pointer it holds: the deleter of each runs on the
\* contact manager of its world.
ReleaseNativeContacts ==
  /\ alive
  /\ held # {}
  /\ gz' = [w \in Worlds |->
              [gz[w] EXCEPT !.contacts =
                 Released(@, {p \in held : p.obj.world = w})]]
  /\ held' = {}
  /\ call' = Call("ReleaseNativeContacts", "caller", "void")
  /\ UNCHANGED <<world, paused, enforceContactComputation, alive, pc, round>>

\* ------------------------------------------------------- the environment
\* A client of the simulator (the GUI's play and pause, a holder of GetWorld())
\* pauses or resumes a world.
WorldSetPaused(w, flag) ==
  /\ alive
  /\ gz[w].paused # flag
  /\ gz' = [gz EXCEPT ![w].paused = flag]
  /\ call' = Call("World::SetPaused", w, "void")
  /\ UNCHANGED <<world, paused, enforceContactComputation, alive, held, pc, round>>

\* One iteration of the run loop of a world that is running, and is not paused
\* or has steps asked of it.
WorldRunLoop(w) ==
  /\ alive
  /\ gz[w].running
  /\ ~gz[w].paused \/ gz[w].stepInc > 0
  /\ gz[w].iterations < MaxIter
  /\ gz' = [gz EXCEPT ![w] = RunLoopStep(@)]
  /\ call' = Call("World::RunLoop", w, "void")
  /\ UNCHANGED <<world, paused, enforceContactComputation, alive, held, pc, round>>

\* ------------------------------------------------------------ input sets
StepCounts == 0..MaxSteps

\* The absolute world states over the model names ns with poses in Poses.
TargetStates(ns) ==
  {WorldState(f, {}, {}) : f \in UNION {[d -> Poses] : d \in SUBSET ns}}

\* ---------------------------------------------------------- specification
\* One adaptor that is handed either of two worlds, steps the first and loads
\* the second.
Next ==
  \E a \in {"a1"} :
    \/ \E w \in Worlds \cup {NULL} : SetWorld(a, StdPtr(w))
    \/ PostWorldLoadedStop(a)
    \/ PostWorldLoadedPause(a)
    \/ PostWorldLoadedRun(a)
    \/ \E w \in {"w2", NULL} : LoadFromSDF(a, w, Scene)
    \/ \E nsOk \in BOOLEAN : WaitForNamespace(a, nsOk)
    \/ \E flag \in BOOLEAN : SetEnforceContactsComputation(a, flag)
    \/ \E ok \in BOOLEAN : AddModelFromSDF(a, "A", MaxPose, ok)
    \/ RemoveModel(a, "A")
    \/ RemoveModelRemove(a)
    \/ Clear(a)
    \/ \E s \in TargetStates({"A"}) : SetWorldState(a, s, FALSE)
    \/ world[a].obj # "w2" /\
         \E steps \in StepCounts, force \in BOOLEAN : Update(a, steps, force)
    \/ UpdateStep(a)
    \/ UpdateReturn(a)
    \/ \E flag \in BOOLEAN : SetPaused(a, flag)
    \/ \E w \in Worlds : WorldRunLoop(w)

Spec == Init /\ [][Next]_vars

\* The states a caller hands to SetWorldState: absolute states, and the
\* differential states between two of them.
DiffStates(ns) == {Minus(o, c) : o \in TargetStates(ns), c \in TargetStates(ns)}

StateInputs(ns) == TargetStates(ns) \cup DiffStates(ns)


\* The states a caller hands to SetBasicModelState: each of position, rotation
\* and scale is given or not.
Positions == {[on |-> TRUE, v |-> p] : p \in Poses} \cup {[on |-> FALSE, v |-> 0]}

Rotations == {[on |-> TRUE, v |-> r] : r \in {0, 1}} \cup {[on |-> FALSE, v |-> 0]}

Scales == {[on |-> TRUE, v |-> sc] : sc \in {1, 2}} \cup {[on |-> FALSE, v |-> 1]}

BasicStates ==
  {BasicState(p.on, p.v, r.on, r.v, sc.on, sc.v) :
     p \in Positions, r \in Rotations, sc \in Scales}

\* Those that give at most a position, and the one that gives a quarter turn
\* and the scale 2.
PositionStates == {s \in BasicStates : ~s.RotEnabled /\ ~s.ScaleEnabled}

TurnedAndScaled == BasicState(FALSE, 0, TRUE, 1, TRUE, 2)

\* One adaptor on one world whose models are added, removed and set.
NextState ==
  \E a \in {"a1"} :
    \/ ~Loaded(a) /\ SetWorld(a, StdPtr("w1"))
    \/ PostWorldLoadedStop(a)
    \/ PostWorldLoadedPause(a)
    \/ PostWorldLoadedRun(a)
    \/ \E res \in {"w1", NULL} : LoadFromSDF(a, res, Scene)
    \/ \E res \in {"w1", NULL} : LoadFromFile(a, res, Scene)
    \/ \E res \in {"w1", NULL} : LoadFromString(a, res, Scene)
    \/ \E nsOk \in BOOLEAN : WaitForNamespace(a, nsOk)
    \/ \E id \in Names, state \in PositionStates \cup {TurnedAndScaled} :
         SetBasicModelState(a, id, state)
    \/ SetBasicModelStatePose(a)
    \/ SetBasicModelStateScale(a)
    \/ \E n \in Names, p \in Poses, ok \in BOOLEAN : AddModelFromSDF(a, n, p, ok)
    \/ \E n \in Names \cup {""}, p \in Poses : AddModelFromShape(a, n, p)
    \/ \E n \in Names, p \in Poses, found \in BOOLEAN : AddModelFromFile(a, n, p, found, TRUE)
    \/ \E n \in Names, p \in Poses, checkSDF \in {0, -1, -2} :
         AddModelFromString(a, n, p, checkSDF, TRUE, TRUE)
    \/ \E id \in Names : RemoveModel(a, id)
    \/ RemoveModelRemove(a)
    \/ Clear(a)
    \/ \E s \in StateInputs(Names), isDiff \in BOOLEAN : SetWorldState(a, s, isDiff)

SpecState == Init /\ [][NextState]_vars

\* One adaptor on one world that is stepped, paused, and resumed by a client of
\* the simulator.
NextStep ==
  \/ \E a \in {"a1"} :
       \/ ~Loaded(a) /\ SetWorld(a, StdPtr("w1"))
       \/ PostWorldLoadedStop(a)
       \/ PostWorldLoadedPause(a)
       \/ PostWorldLoadedRun(a)
       \/ AddModelFromShape(a, "A", MaxPose)
       \/ \E flag \in BOOLEAN : SetDynamicsEnabled(a, flag)
       \/ \E flag \in BOOLEAN : SetPaused(a, flag)
       \/ \E steps \in StepCounts, force \in BOOLEAN : Update(a, steps, force)
       \/ UpdatePause(a)
       \/ UpdateStep(a)
       \/ UpdateReturn(a)
       \/ \E state \in BasicStates : SetBasicModelState(a, "A", state)
       \/ SetBasicModelStatePose(a)
       \/ SetBasicModelStateScale(a)
  \/ \E flag \in BOOLEAN : WorldSetPaused("w1", flag)
  \/ WorldRunLoop("w1")

SpecStep == Init /\ [][NextStep]_vars

\* The world an adaptor wraps in the lockstep scenario: one world each.
WorldOf(a) == IF a = "a1" THEN "w1" ELSE "w2"

\* The counts of the adaptors' worlds.
Counts(f) == [a \in Adaptors |-> gz[world[a].obj][f]]

\* A round of the world manager: the same Update(steps, force) on every
\* adaptor in turn.  The round starts with the Update on the first adaptor.
UpdateAll(steps, force) ==
  /\ alive
  /\ round.at = "idle"
  /\ \A a \in Adaptors : Loaded(a) /\ Idle(a)
  /\ \A a \in Adaptors : gz[world[a].obj].iterations + steps <= MaxIter
  /\ DoUpdate("a1", steps, force)
  /\ round' = [at |-> "a1", steps |-> steps, force |-> force,
                start |-> Counts("iterations"), looped |-> Counts("looped"),
                seen |-> [NoRound.seen EXCEPT !["a1"] = IsPaused("a1")]]

\* The round goes on when the Update on the first adaptor has returned.
UpdateAllNext ==
  /\ alive
  /\ round.at = "a1"
  /\ Idle("a1") /\ Idle("a2")
  /\ DoUpdate("a2", round.steps, round.force)
  /\ round' = [round EXCEPT !.at = "a2", !.seen["a2"] = IsPaused("a2")]

\* The round ends when the Update on the last adaptor has returned.
UpdateAllReturn ==
  /\ alive
  /\ round.at = "a2"
  /\ Idle("a2")
  /\ round' = NoRound
  /\ call' = Call("UpdateAll", "all", "void")
  /\ UNCHANGED <<gz, world, paused, enforceContactComputation, alive, held, pc>>

NextLockstep ==
  \/ \E a \in Adaptors : ~Loaded(a) /\ SetWorld(a, StdPtr(WorldOf(a)))
  \/ \E a \in Adaptors : PostWorldLoadedStop(a)
  \/ \E a \in Adaptors : PostWorldLoadedPause(a)
  \/ \E a \in Adaptors : PostWorldLoadedRun(a)
  \/ \E a \in Adaptors, flag \in BOOLEAN : SetPaused(a, flag)
  \/ \E steps \in 1..MaxSteps, force \in BOOLEAN : UpdateAll(steps, force)
  \/ UpdateAllNext
  \/ UpdateAllReturn
  \/ \E a \in Adaptors : UpdatePause(a)
  \/ \E a \in Adaptors : UpdateStep(a)
  \/ \E a \in Adaptors : UpdateReturn(a)
  \/ \E flag \in BOOLEAN : WorldSetPaused("w2", flag)
  \/ \E w \in Worlds : WorldRunLoop(w)

SpecLockstep == Init /\ [][NextLockstep]_vars

\* One adaptor on one world that holds up to two models, is stepped and
\* queried.
NextQuery ==
  \/ \E a \in {"a1"} :
       \/ ~Loaded(a) /\ SetWorld(a, StdPtr("w1"))
       \/ PostWorldLoadedStop(a)
       \/ PostWorldLoadedPause(a)
       \/ PostWorldLoadedRun(a)
       \/ \E p \in Poses : AddModelFromShape(a, "A", p)
       \/ AddModelFromSDF(a, "B", MaxPose, TRUE)
       \/ \E flag \in BOOLEAN : SetEnforceContactsComputation(a, flag)
       \/ \E flag \in BOOLEAN : SetPaused(a, flag)
       \/ \E steps \in StepCounts : Update(a, steps, FALSE)
       \/ UpdateStep(a)
       \/ UpdateReturn(a)
       \/ \E state \in PositionStates \cup {TurnedAndScaled} :
            SetBasicModelState(a, "A", state)
       \/ SetBasicModelStatePose(a)
       \/ SetBasicModelStateScale(a)
       \/ Call_GetWorldState(a)
       \/ \E other \in TargetStates({"A"}) : Call_GetWorldStateDiff(a, other)
       \/ Call_GetAllModelIDs(a)
       \/ GetAllModelIDsByIndex(a)
       \/ \E id \in Names : Call_GetBasicModelState(a, id)
       \/ GetBasicModelStatePose(a)
       \/ GetBasicModelStateScale(a)
       \/ \E id \in Names : Call_GetAABB(a, id)
       \/ GetAABBBox(a)
       \/ \E id \in Names : Call_GetModel(a, id)
       \/ Call_GetName(a)
       \/ Call_IsPaused(a)
       \/ Call_GetContactInfo(a)
       \/ \E m1 \in Names, m2 \in Names : Call_GetContactInfo2(a, m1, m2)
       \/ Call_GetNativeContacts(a)
       \/ \E m1 \in Names, m2 \in Names : Call_GetNativeContacts2(a, m1, m2)
  \/ ReleaseNativeContacts
  \/ WorldRunLoop("w1")

SpecQuery == Init /\ [][NextQuery]_vars

\* Two adaptors: the first wraps a world and loads another, the second wraps
\* the world that is being loaded and removes its model.
NextLoad ==
  \/ \E a \in {"a1"} :
       \/ SetWorld(a, StdPtr("w1"))
       \/ PostWorldLoadedStop(a)
       \/ PostWorldLoadedPause(a)
       \/ PostWorldLoadedRun(a)
       \/ \E res \in {"w2", NULL} : LoadFromSDF(a, res, Scene)
       \/ \E res \in {"w2", NULL} : LoadFromFile(a, res, Scene)
       \/ \E res \in {"w2", NULL} : LoadFromString(a, res, Scene)
       \/ \E nsOk \in BOOLEAN : WaitForNamespace(a, nsOk)
  \/ \E a \in {"a2"} :
       \/ SetWorld(a, StdPtr("w2"))
       \/ PostWorldLoadedStop(a)
       \/ PostWorldLoadedPause(a)
       \/ PostWorldLoadedRun(a)
       \/ RemoveModel(a, "A")
       \/ RemoveModelRemove(a)
  \/ \E a \in Adaptors, flag \in BOOLEAN : SetEnforceContactsComputation(a, flag)

SpecLoad == Init /\ [][NextLoad]_vars

\* The state s and the model C at p as well: the state a caller makes of
\* GetWorldState() to put one more model into the world.
WithC(s, p) ==
  WorldState([n \in DOMAIN s.poses \cup {"C"} |->
                IF n = "C" THEN p ELSE s.poses[n]], {}, {})

\* One adaptor that loads a world whose scene holds A, adds B with the Add*
\* functions, puts C into the world with SetWorldState, and clears the world.
NextClear ==
  \E a \in {"a1"} :
    \/ LoadFromSDF(a, "w1", Scene)
    \/ LoadFromFile(a, "w1", Scene)
    \/ LoadFromString(a, "w1", Scene)
    \/ \E nsOk \in BOOLEAN : WaitForNamespace(a, nsOk)
    \/ PostWorldLoadedStop(a)
    \/ PostWorldLoadedPause(a)
    \/ PostWorldLoadedRun(a)
    \/ \E p \in Poses : AddModelFromShape(a, "B", p)
    \/ \E p \in Poses, ok \in BOOLEAN : AddModelFromSDF(a, "B", p, ok)
    \/ \E p \in Poses : AddModelFromFile(a, "B", p, TRUE, TRUE)
    \/ \E p \in Poses : AddModelFromString(a, "B", p, 0, TRUE, TRUE)
    \/ Loaded(a) /\ \E p \in Poses : SetWorldState(a, WithC(GetWorldState(a), p), FALSE)
    \/ Clear(a)
    \/ Call_GetAllModelIDs(a)
    \/ GetAllModelIDsByIndex(a)

SpecClear == Init /\ [][NextClear]_vars

\* The states given to SetWorldState on w2: no model, and B on the ground.
SwitchStates ==
  {WorldState(<<>>, {}, {}),
   WorldState([n \in {"B"} |-> 0], {}, {})}

\* The adaptor wraps w2 and its caller holds no native contact pointer: the
\* caller releases the pointers of GetNativeContacts before its next call.
OnW2(a) == world[a].obj = "w2" /\ held = {}

\* One adaptor that is given w1, adds a model to it, is then given w2 and is
\* used in every way on w2, which its caller fills with other models.
NextSwitch ==
  \/ \E a \in {"a1"} :
       \/ ~Loaded(a) /\ SetWorld(a, StdPtr("w1"))
       \/ world[a].obj = "w1" /\ AddModelFromShape(a, "A", MaxPose)
       \/ world[a].obj = "w1" /\ gz["w1"].models # <<>> /\ SetWorld(a, StdPtr("w2"))
       \/ PostWorldLoadedStop(a)
       \/ PostWorldLoadedPause(a)
       \/ PostWorldLoadedRun(a)
       \/ OnW2(a) /\ AddModelFromShape(a, "A", MaxPose)
       \/ OnW2(a) /\ AddModelFromSDF(a, "B", MaxPose, TRUE)
       \/ OnW2(a) /\ AddModelFromFile(a, "B", MaxPose, TRUE, TRUE)
       \/ OnW2(a) /\ AddModelFromString(a, "B", MaxPose, 0, TRUE, TRUE)
       \/ OnW2(a) /\ \E id \in Names : RemoveModel(a, id)
       \/ RemoveModelRemove(a)
       \/ OnW2(a) /\ Clear(a)
       \/ OnW2(a) /\ \E s \in SwitchStates : SetWorldState(a, s, FALSE)
       \/ OnW2(a) /\ \E flag \in BOOLEAN : SetDynamicsEnabled(a, flag)
       \/ OnW2(a) /\ \E flag \in BOOLEAN : SetEnforceContactsComputation(a, flag)
       \/ OnW2(a) /\ Update(a, 1, TRUE)
       \/ UpdateStep(a)
       \/ UpdateReturn(a)
       \/ OnW2(a) /\ Call_GetWorldState(a)
       \/ OnW2(a) /\ Call_GetWorldStateDiff(a, WorldState(<<>>, {}, {}))
       \/ OnW2(a) /\ Call_GetAllModelIDs(a)
       \/ GetAllModelIDsByIndex(a)
       \/ OnW2(a) /\ \E id \in Names : Call_GetBasicModelState(a, id)
       \/ GetBasicModelStatePose(a)
       \/ GetBasicModelStateScale(a)
       \/ OnW2(a) /\ \E id \in Names : Call_GetAABB(a, id)
       \/ GetAABBBox(a)
       \/ OnW2(a) /\ \E id \in Names : Call_GetModel(a, id)
       \/ OnW2(a) /\ Call_GetName(a)
       \/ OnW2(a) /\ Call_GetContactInfo(a)
       \/ OnW2(a) /\ Call_GetContactInfo2(a, "A", "B")
       \/ OnW2(a) /\ Call_GetNativeContacts(a)
       \/ OnW2(a) /\ Call_GetNativeContacts2(a, "A", "B")
  \/ ReleaseNativeContacts
  \/ WorldRunLoop("w2")

SpecSwitch == Init /\ [][NextSwitch]_vars

\* Both adaptors wrap w1 and their callers are in no call.
Sharing == \A b \in Adaptors : world[b].obj = "w1" /\ Idle(b)

\* Two adaptors on one world: the first removes models and lists them while
\* the second removes and adds models.
NextShared ==
  \/ ~Loaded("a1") /\ SetWorld("a1", StdPtr("w1"))
  \/ Loaded("a1") /\ Idle("a1") /\ ~Loaded("a2") /\ SetWorld("a2", StdPtr("w1"))
  \/ \E a \in Adaptors : PostWorldLoadedStop(a)
  \/ \E a \in Adaptors : PostWorldLoadedPause(a)
  \/ \E a \in Adaptors : PostWorldLoadedRun(a)
  \/ Sharing /\ \E n \in Names : AddModelFromShape("a1", n, MaxPose)
  \/ Loaded("a2") /\ RemoveModel("a1", "A")
  \/ RemoveModelRemove("a1")
  \/ Loaded("a2") /\ Call_GetAllModelIDs("a1")
  \/ GetAllModelIDsByIndex("a1")
  \/ Loaded("a1") /\ RemoveModel("a2", "A")
  \/ RemoveModelRemove("a2")
  \/ Loaded("a1") /\ \E n \in {"A", "C"} : AddModelFromShape("a2", n, MaxPose)

SpecShared == Init /\ [][NextShared]_vars

\* ------------------------------------------------------------------ claims
LoadOps == {"LoadFromSDF", "LoadFromFile", "LoadFromString"}

InstallOps == {"SetWorld"} \cup LoadOps

\* C1: SetWorld(w) makes GetWorld() the world w at once, keeps it so while it
\* prepares the world and returns REFERENCED; GetWorld() changes in no step
\* but the world assignment of a SetWorld, called by the user or by a
\* LoadFrom* whose world is ready, and is never the adaptor itself
\* (IsAdaptor() is true).
C1_SetWorldReferences ==
  [][/\ \A w \in Worlds :
          SetWorld("a1", StdPtr(w)) => GetWorld("a1")' = StdPtr(w)
     /\ pc["a1"].op = "SetWorld" =>
          /\ GetWorld("a1")' = GetWorld("a1")
          /\ Idle("a1")' => call' = Call("SetWorld", "a1", "REFERENCED")
     /\ (call'.self = "a1" /\ call'.op = "SetWorld" /\ call' # call) =>
          call'.ret \in {"pending", "REFERENCED", "abort"}
     /\ call'.op \notin InstallOps => GetWorld("a1")' = GetWorld("a1")
     /\ GetWorld("a1")' # GetWorld("a1") =>
          \/ \E w \in Worlds \cup {NULL} : SetWorld("a1", StdPtr(w))
          \/ WaitForNamespace("a1", TRUE)
     /\ IsAdaptor("a1")
     /\ GetWorld("a1")'.obj \notin Adaptors]_vars

\* C1 witness: SetWorld(w2) has returned REFERENCED on an adaptor that wrapped
\* w1 before, and GetWorld() is w2.
C1_Witness ==
  /\ alive
  /\ call.op = "SetWorld"
  /\ call.ret = "REFERENCED"
  /\ GetWorld("a1") = StdPtr("w2")
  /\ gz["w1"].running

\* What the queries return when they read the world record g and nothing
\* else: the model called id, its pose and its box, and the names.
ModelIn(g, id) == g.models[CHOOSE i \in 1..Len(g.models) : g.models[i].name = id]

IdsIn(g) == [i \in 1..Len(g.models) |-> g.models[i].name]

\* C2: once SetWorld(w2) has made w2 the world of an adaptor that wrapped w1,
\* no step changes w1, whatever the adaptor is used for (Update, the Add*
\* functions, RemoveModel, Clear, SetWorldState, SetDynamicsEnabled,
\* SetEnforceContactsComputation, the queries), and what Update and every
\* state and contact query read is that of w2: each returns what the record
\* of w2 gives, while w1 holds another model and no contact.
C2_OnlyWrappedWorldChanges ==
  [][world["a1"].obj = "w2" =>
       /\ gz'["w1"] = gz["w1"]
       /\ world' = world
       /\ (Idle("a1") /\ pc'["a1"].op = "Update") =>
            /\ pc'["a1"].it0 = gz["w2"].iterations
            /\ pc'["a1"].at = IF gz["w2"].paused THEN "step" ELSE "pause"
       /\ call'.op = "GetWorldState" => call'.ret = StateOf(gz["w2"])
       /\ call'.op = "GetWorldStateDiff" =>
            call'.ret = Minus(WorldState(<<>>, {}, {}), StateOf(gz["w2"]))
       /\ (Idle("a1") /\ call'.op = "GetAllModelIDs") =>
            IF gz["w2"].models = <<>>
            THEN ToString(call'.ret) = ToString(<<>>)
            ELSE pc'["a1"].numModels = Len(gz["w2"].models)
       /\ pc["a1"].at = "ids" =>
            /\ Idle("a1")' => call'.ret = IdsIn(gz["w2"])
            /\ ~Idle("a1")' =>
                 pc'["a1"].names =
                   SubSeq(IdsIn(gz["w2"]), 1, Len(pc["a1"].names) + 1)
       /\ call'.op = "GetName" => call'.ret = "w2"
       /\ call'.op = "GetModel" =>
            \E id \in Names :
              ToString(call'.ret) =
                ToString(StdPtr(IF id \in NamesOf(gz["w2"])
                                THEN ModelIn(gz["w2"], id) ELSE NULL))
       /\ (Idle("a1") /\ pc'["a1"].at = "box") =>
            pc'["a1"].id \in NamesOf(gz["w2"])
       /\ (Idle("a1") /\ Idle("a1")' /\ call'.op = "GetAABB") =>
            (~call'.ret.ok => NamesOf(gz["w2"]) # Names)
       /\ (pc["a1"].at = "box" /\ Idle("a1")') =>
            call'.ret = [ok |-> TRUE,
                         min |-> BoundingBox(ModelIn(gz["w2"], pc["a1"].id)).min,
                         max |-> BoundingBox(ModelIn(gz["w2"], pc["a1"].id)).max]
       /\ (Idle("a1") /\ pc'["a1"].at = "rpose") =>
            pc'["a1"].id \in NamesOf(gz["w2"])
       /\ (Idle("a1") /\ Idle("a1")' /\ call'.op = "GetBasicModelState") =>
            (~call'.ret.ok => NamesOf(gz["w2"]) # Names)
       /\ (pc["a1"].at = "rpose" /\ pc'["a1"].at = "rscale") =>
            pc'["a1"].pose = [pos |-> ModelIn(gz["w2"], pc["a1"].id).pose,
                              rot |-> ModelIn(gz["w2"], pc["a1"].id).rot]
       /\ (pc["a1"].at = "rscale" /\ Idle("a1")') =>
            call'.ret = [ok |-> TRUE, position |-> pc["a1"].pose.pos,
                         rotation |-> pc["a1"].pose.rot,
                         scale |-> ModelIn(gz["w2"], pc["a1"].id).scale]
       /\ call'.op = "GetContactInfo" =>
            call'.ret = GetContactInfoHelper(gz["w2"], NULL, NULL)
       /\ call'.op = "GetContactInfo(m1,m2)" =>
            call'.ret = GetContactInfoHelper(gz["w2"], "A", "B")
       /\ call'.op \in {"GetNativeContacts", "GetNativeContacts(m1,m2)"} =>
            /\ Len(call'.ret) = Len(gz["w2"].contacts)
            /\ \A k \in 1..Len(call'.ret) :
                 call'.ret[k] = NativeContactPtr("w2", gz["w2"].contacts[k])]_vars

\* C2 witness: the adaptor wrapped w1, which holds the model given to it and no
\* contact, and wraps w2 now; GetContactInfo() has returned a contact of w2.
C2_Witness ==
  /\ alive
  /\ world["a1"].obj = "w2"
  /\ call.op = "GetContactInfo"
  /\ call.ret # <<>>
  /\ gz["w1"].models = <<Model("A", MaxPose, ShapeLink)>>
  /\ gz["w1"].contacts = <<>>
  /\ gz["w1"].running

\* The state the interface documents for SetWorldState(d, isDiff = true) on a
\* world in state c: the deletions of d are removed, its insertions are added
\* at the pose d gives, and the other poses of d are added onto those of c.
Plus(c, d) ==
  LET names == (DOMAIN c.poses \ d.deletions) \cup d.insertions
  IN  WorldState([n \in names |->
                    IF n \in d.insertions THEN d.poses[n]
                    ELSE c.poses[n] + (IF n \in DOMAIN d.poses THEN d.poses[n] ELSE 0)],
                 {}, {})

\* d can be applied to c as a differential state: it inserts no model c has,
\* and deletes and moves only models c has.
Applicable(c, d) ==
  /\ d.insertions \cap DOMAIN c.poses = {}
  /\ d.insertions \subseteq DOMAIN d.poses
  /\ d.deletions \subseteq DOMAIN c.poses
  /\ (DOMAIN d.poses \ d.insertions) \subseteq (DOMAIN c.poses \ d.deletions)

\* The state a SetWorldState(s, isDiff) asks for on a world in state c.
Requested(c, s, isDiff) ==
  IF isDiff THEN Plus(c, s) ELSE WorldState(s.poses, {}, {})

\* C3: applying GetWorldStateDiff(other) with SetWorldState(diff, isDiff = true)
\* leaves the world in the state other.
C3_DiffReachesOther ==
  [][\A o \in TargetStates(Names) :
       (/\ Loaded("a1")
        /\ GetWorldStateDiff("a1", o) \in StateInputs(Names)
        /\ SetWorldState("a1", GetWorldStateDiff("a1", o), TRUE))
       => GetWorldState("a1")' = o]_vars

\* C4: SetWorldState(state, isDiff) with a state that differs from the current
\* one resets the world to exactly state when isDiff is false and applies state
\* onto the current state when isDiff is true.
C4_ModesDiffer ==
  [][\A s \in StateInputs(Names), d \in BOOLEAN :
       (/\ Loaded("a1")
        /\ s # GetWorldState("a1")
        /\ d => Applicable(GetWorldState("a1"), s)
        /\ SetWorldState("a1", s, d))
       => GetWorldState("a1")' = Requested(GetWorldState("a1"), s, d)]_vars

\* C5: SetWorldState returns NOT_SUPPORTED for a differential state that adds a
\* model the world already has, and SUCCESS only when the world has reached the
\* requested state.
C5_ResultCodes ==
  [][\A s \in StateInputs(Names), d \in BOOLEAN :
       (Loaded("a1") /\ SetWorldState("a1", s, d)) =>
         /\ (d /\ s.insertions \cap DOMAIN GetWorldState("a1").poses # {}) =>
              call'.ret = "NOT_SUPPORTED"
         /\ (call'.ret = "SUCCESS" /\ (d => Applicable(GetWorldState("a1"), s))) =>
              GetWorldState("a1")' = Requested(GetWorldState("a1"), s, d)]_vars

Iterations(a) == gz[world[a].obj].iterations

\* C6 as stated: an Update(steps) with steps >= 1 on a loaded world returns
\* with the iteration count grown by exactly steps.
C6_UpdateAlwaysSteps ==
  [][/\ \A steps \in 1..MaxSteps :
          (Loaded("a1") /\ Update("a1", steps, FALSE) /\ call'.ret = "void") =>
            Iterations("a1")' = Iterations("a1") + steps
     /\ (UpdateReturn("a1") /\ pc["a1"].steps >= 1) =>
          Iterations("a1")' = pc["a1"].it0 + pc["a1"].steps]_vars

\* C6 amended: Update(steps, force) on an adaptor that is paused returns at
\* once and leaves the world as it is unless force is given; else it steps the
\* world and returns with the iteration count grown by at least steps since
\* the call was made, and by exactly steps when the world's own loop did no
\* iteration during the call.
C6_UpdateStepsUnlessPaused ==
  [][/\ \A steps \in 1..MaxSteps, force \in BOOLEAN :
          (Loaded("a1") /\ Update("a1", steps, force)) =>
            /\ gz' = gz
            /\ call'.ret = IF force \/ ~IsPaused("a1") THEN "pending" ELSE "void"
     /\ UpdatePause("a1") \/ UpdateStep("a1") =>
          Iterations("a1")' = Iterations("a1")
     /\ UpdateReturn("a1") =>
          /\ Iterations("a1")' >= pc["a1"].it0 + pc["a1"].steps
          /\ gz[world["a1"].obj].looped = pc["a1"].looped0 =>
               Iterations("a1")' = pc["a1"].it0 + pc["a1"].steps]_vars

\* C6 witness: Update has stepped the world of an adaptor that is not paused.
C6_Witness ==
  /\ alive
  /\ Loaded("a1")
  /\ call.op = "Update"
  /\ call.ret = "void"
  /\ ~IsPaused("a1")
  /\ gz["w1"].looped = 0
  /\ Iterations("a1") = MaxSteps

\* C7: while the adaptor is paused an Update without force returns at once and
\* leaves the world as it is; the paused flag is what the latest SetPaused
\* gave and no other call changes it; on an adaptor that is not paused
\* Update(steps) goes on to step the world and advances it.
C7_PausedFreezesUpdate ==
  [][/\ \A steps \in StepCounts :
          (IsPaused("a1") /\ Update("a1", steps, FALSE)) =>
            gz' = gz /\ pc' = pc /\ call'.ret = "void"
     /\ \A steps \in 1..MaxSteps :
          (~IsPaused("a1") /\ Loaded("a1") /\ Update("a1", steps, FALSE)) =>
            pc'["a1"].at \in {"pause", "step"} /\ pc'["a1"].steps = steps
     /\ UpdateReturn("a1") =>
          Iterations("a1")' >= pc["a1"].it0 + pc["a1"].steps
     /\ \A flag \in BOOLEAN : SetPaused("a1", flag) => IsPaused("a1")' = flag
     /\ call'.op # "SetPaused" => paused' = paused]_vars

\* C7 witness: Update has returned on a paused adaptor whose world holds a
\* model above the ground and has dynamics enabled.
C7_Witness ==
  /\ alive
  /\ Loaded("a1")
  /\ call.op = "Update"
  /\ call.ret = "void"
  /\ IsPaused("a1")
  /\ gz["w1"].physicsEnabled
  /\ gz["w1"].models = <<Model("A", MaxPose, ShapeLink)>>

\* The iterations a world has advanced since the round began.
Advance(a) == Iterations(a) - round.start[a]

\* C8 as stated: when a round of the same Update(steps) on every adaptor ends
\* all worlds have advanced by the same number of iterations.
C8_LockstepAlways ==
  [][UpdateAllReturn => Advance("a1") = Advance("a2")]_vars

\* C8 amended: when a round of the same Update(steps, force) on every adaptor
\* ends all worlds have advanced by the same number of iterations, provided
\* that force is given or the adaptors' paused flags agreed at their Updates
\* and that no world's own loop did an iteration during the round; the number
\* is steps unless the adaptors are paused and force is not given.
C8_LockstepWhenFlagsAgree ==
  [][(/\ UpdateAllReturn
      /\ round.force \/ round.seen["a1"] = round.seen["a2"]
      /\ Counts("looped") = round.looped)
     => /\ Advance("a1") = Advance("a2")
        /\ Advance("a1") =
             IF round.force \/ ~round.seen["a1"] THEN round.steps ELSE 0]_vars

\* C8 witness: the last Update of a round has returned and the round has
\* advanced both worlds by the steps asked for.
C8_Witness ==
  /\ alive
  /\ round.at = "a2"
  /\ Idle("a2")
  /\ call = Call("Update", "a2", "void")
  /\ round.steps = MaxSteps
  /\ Counts("looped") = round.looped
  /\ Advance("a1") = MaxSteps
  /\ Advance("a2") = MaxSteps

Range(seq) == {seq[i] : i \in 1..Len(seq)}

\* The ids of the models of the world adaptor a wraps, in the world's order.
Ids(a) == IdsIn(gz[world[a].obj])

\* C9: RemoveModel(id) returns false exactly when the world has no model
\* called id when the call looks it up, and then leaves the world as it is;
\* otherwise it goes on to remove the model and returns true, and then id is
\* not among the ids of the world and every other id still is, in the same
\* order, also when another adaptor has removed the model in between.  The
\* first adaptor's calls are RemoveModel("A").
C9_RemoveModel ==
  [][/\ (/\ Loaded("a1") /\ Idle("a1")
         /\ call'.self = "a1" /\ call'.op = "RemoveModel"
         /\ ToString(call') # ToString(call)) =>
          /\ gz' = gz
          /\ (ToString(call'.ret) = "FALSE") <=> ("A" \notin Range(Ids("a1")))
          /\ "A" \in Range(Ids("a1")) =>
               pc'["a1"].at = "remove" /\ pc'["a1"].id = "A"
     /\ (pc["a1"].at = "remove" /\ Idle("a1")') =>
          /\ call' = Call("RemoveModel", "a1", TRUE)
          /\ Ids("a1")' = SelectSeq(Ids("a1"), LAMBDA n : n # "A")
          /\ gz' = [gz EXCEPT !["w1"].models =
                                SelectSeq(@, LAMBDA m : m.name # "A")]]_vars

\* C9 witness: the first adaptor has looked up A for its RemoveModel, the
\* RemoveModel(A) of the second adaptor has returned true since, and of the
\* models A and B of the world B is still there.
C9_Witness ==
  /\ alive
  /\ pc["a1"].at = "remove"
  /\ pc["a1"].id = "A"
  /\ call.op = "RemoveModel"
  /\ call.self = "a2"
  /\ ToString(call.ret) = "TRUE"
  /\ Ids("a1") = <<"B">>

AddOps ==
  {"AddModelFromSDF", "AddModelFromShape", "AddModelFromFile", "AddModelFromString"}

\* The calls that bring a model called n into the world of SpecClear: A and
\* the ground plane come with the scene of a loaded world, B from the Add*
\* functions and C from SetWorldState.
Origin(n) ==
  IF n \in {"A", "ground_plane"} THEN LoadOps
  ELSE IF n = "B" THEN AddOps ELSE {"SetWorldState"}

C11_LoadResult ==
  [][/\ \A op \in LoadOps :
          (alive /\ Idle("a1") /\ DoLoad(op, "a1", NULL, Scene)) =>
            /\ call'.ret = "FAILED"
            /\ GetWorld("a1")' = GetWorld("a1")
     /\ WaitForNamespace("a1", FALSE) =>
          /\ call' = Call(pc["a1"].op, "a1", "FAILED")
          /\ GetWorld("a1")' = GetWorld("a1")
     /\ WaitForNamespace("a1", TRUE) =>
          /\ call' = Call(pc["a1"].op, "a1", "pending")
          /\ GetWorld("a1")' = StdPtr(pc["a1"].res)
     /\ (PostWorldLoadedRun("a1") /\ pc["a1"].op \in LoadOps) =>
          /\ call' = Call(pc["a1"].op, "a1", "SUCCESS")
          /\ GetWorld("a1")' = StdPtr(pc["a1"].res)
          /\ gz'[pc["a1"].res].running
          /\ gz'[pc["a1"].res].paused
     /\ (/\ call'.self = "a1" /\ call'.op \in LoadOps
         /\ call'.ret = "SUCCESS" /\ call' # call) =>
          /\ pc["a1"].at = "run"
          /\ GetWorld("a1")' = StdPtr(pc["a1"].res)]_vars

\* C11 witness: LoadFromString has returned SUCCESS on an adaptor that wrapped
\* another world, and GetWorld() is the loaded world.
C11_Witness ==
  /\ alive
  /\ call.op = "LoadFromString"
  /\ call.ret = "SUCCESS"
  /\ GetWorld("a1") = StdPtr("w2")
  /\ gz["w1"].running
  /\ gz["w2"].running

\* The contacts the contact manager of the wrapped world holds.
ManagerContacts(a) == gz[world[a].obj].contacts

\* C12: GetContactInfo() returns every contact point of every contact the
\* contact manager holds, under the names of the contact's two models, and
\* returns the empty vector when the manager holds no contact with at least one
\* contact point.
C12_AllContactPoints ==
  (alive /\ Loaded("a1") /\ call.op = "GetContactInfo") =>
    LET cs == ManagerContacts("a1")
        ret == call.ret
    IN  /\ \A k \in 1..Len(cs) : \A i \in 1..cs[k].count :
             \E e \in 1..Len(ret) :
               /\ ret[e].model1 = cs[k].collision1.model
               /\ ret[e].model2 = cs[k].collision2.model
               /\ \E j \in 1..Len(ret[e].contacts) :
                    ret[e].contacts[j] = Contact(cs[k], i)
        /\ (\A k \in 1..Len(cs) : cs[k].count = 0) => ret = <<>>

\* C12 witness: GetContactInfo() has returned one entry with all the points of
\* a contact of two models resting on the ground.
C12_Witness ==
  /\ alive
  /\ Loaded("a1")
  /\ call.op = "GetContactInfo"
  /\ Len(ManagerContacts("a1")) = 1
  /\ ManagerContacts("a1")[1].count = MaxPoints
  /\ Len(call.ret) = 1
  /\ Len(call.ret[1].contacts) = MaxPoints

\* A pointer is dangling when the contact manager of its world does not hold
\* the contact it points to.
Dangling(p) ==
  \A k \in 1..Len(gz[p.obj.world].contacts) :
    gz[p.obj.world].contacts[k] # p.obj.contact

\* C13: releasing the pointers GetNativeContacts returned leaves every contact
\* manager as it was, and a held pointer does not keep its contact: every
\* iteration of a world's run loop that updates the collisions, as the ones an
\* Update asks for, leaves the caller holding its pointers and the contact
\* manager without any of the contacts they point to.
C13_ContactsNotOwned ==
  [][/\ ReleaseNativeContacts => gz' = gz
     /\ \A w \in Worlds :
          (gz'[w].iterations > gz[w].iterations /\ gz[w].physicsEnabled) =>
            /\ held' = held
            /\ \A p \in held : p.obj.world = w => Dangling(p)']_vars

\* C13 witness: a pointer to a contact with a contact point is held, an
\* Update called since has returned, and the contact manager holds no contact
\* any more though both models of the contact are in the world.
C13_Witness ==
  /\ alive
  /\ call = Call("Update", "a1", "void")
  /\ gz["w1"].contacts = <<>>
  /\ \E p \in held :
       /\ p.obj.world = "w1"
       /\ p.obj.contact.count > 0
       /\ {p.obj.contact.collision1.model, p.obj.contact.collision2.model}
            \subseteq NamesOf(gz["w1"])
       /\ Dangling(p)

QueryOps ==
  {"GetWorldState", "GetWorldStateDiff", "GetAllModelIDs", "GetBasicModelState",
   "GetAABB", "GetContactInfo", "GetContactInfo(m1,m2)", "GetNativeContacts",
   "GetNativeContacts(m1,m2)", "GetModel", "GetName", "IsPaused"}

\* C14: a query leaves the worlds (their models, poses, contacts and iteration
\* counts), the wrapped world, the adaptor's paused flag and its
\* contact-enforcement flag unchanged.
C14_QueriesChangeNothing ==
  [][call'.op \in QueryOps =>
       /\ gz' = gz
       /\ world' = world
       /\ paused' = paused
       /\ enforceContactComputation' = enforceContactComputation]_vars

\* C14 witness: GetContactInfo() has returned a contact on a world that was
\* stepped, and the contact manager still holds the contact.
C14_Witness ==
  /\ alive
  /\ Loaded("a1")
  /\ call.op = "GetContactInfo"
  /\ call.ret # <<>>
  /\ ManagerContacts("a1") # <<>>
  /\ gz["w1"].iterations > 0

\* C16 as stated: while a world is loaded its contact manager enforces
\* contacts exactly when the adaptor's enforceContactComputation says so.
C16_EnforceFlagAlways ==
  \A a \in Adaptors :
    (alive /\ Loaded(a)) =>
      gz[world[a].obj].enforce = enforceContactComputation[a]

\* The steps in which adaptor a applies its flag to a world: the first step of
\* a SetWorld, called by the user or by a LoadFrom* whose world is ready, and
\* SetEnforceContactsComputation on a loaded world.
Installs(a) ==
  \/ \E w \in Worlds : SetWorld(a, StdPtr(w))
  \/ WaitForNamespace(a, TRUE)

Applies(a) ==
  \/ Installs(a)
  \/ \E flag \in BOOLEAN : Loaded(a) /\ SetEnforceContactsComputation(a, flag)

\* C16 amended: the first step of every SetWorld, called by the user or by a
\* successful LoadFrom*, applies the adaptor's enforceContactComputation to
\* the contact manager of the new world, before the call stops, pauses and
\* runs that world, and SetEnforceContactsComputation on a loaded world stores
\* and applies its flag: after such a step the setting of the adaptor's world
\* equals its flag.  No other step changes the flag of an adaptor or the
\* setting of a wrapped world, so the two stay equal until a flag is applied
\* to that world again, by this adaptor or by another that wraps it.
\* SetEnforceContactsComputation without a world stores the flag and does not
\* return.
C16_EnforceFlagApplied ==
  [][/\ \A a \in Adaptors :
          Applies(a) =>
            gz'[world'[a].obj].enforce = enforceContactComputation'[a]
     /\ \A a \in Adaptors :
          Installs(a) =>
            /\ pc'[a].at = "stop"
            /\ enforceContactComputation' = enforceContactComputation
     /\ (alive' /\ \A a \in Adaptors : ~Applies(a)) =>
          /\ enforceContactComputation' = enforceContactComputation
          /\ \A a \in Adaptors :
               Loaded(a) => gz'[world[a].obj].enforce = gz[world[a].obj].enforce
     /\ \A a \in Adaptors, flag \in BOOLEAN :
          (SetEnforceContactsComputation(a, flag) /\ ~Loaded(a)) => ~alive']_vars

\* C16 witness: LoadFromSDF has installed a world, made with contacts not
\* enforced, on an adaptor whose flag is set, and the world enforces contacts.
C16_Witness ==
  /\ alive
  /\ call.op = "LoadFromSDF"
  /\ call.ret = "SUCCESS"
  /\ world["a1"].obj = "w2"
  /\ enforceContactComputation["a1"]
  /\ gz["w2"].enforce
  /\ gz["w1"].running

\* C17: every entry GetContactInfo returns, with or without model names, has
\* at least one contact point and belongs to a contact of the contact manager:
\* it has the contact's model and link names and exactly the first count
\* entries of the contact's arrays, in their order; a contact with count zero
\* has no entry.
C17_EntriesMatchRecords ==
  (alive /\ Loaded("a1") /\ call.op \in {"GetContactInfo", "GetContactInfo(m1,m2)"}) =>
    LET cs == ManagerContacts("a1")
        ret == call.ret
    IN  /\ \A e \in 1..Len(ret) :
             /\ Len(ret[e].contacts) >= 1
             /\ \E k \in 1..Len(cs) :
                  /\ ret[e].model1 = cs[k].collision1.model
                  /\ ret[e].link1 = cs[k].collision1.link
                  /\ ret[e].model2 = cs[k].collision2.model
                  /\ ret[e].link2 = cs[k].collision2.link
                  /\ Len(ret[e].contacts) = cs[k].count
                  /\ \A i \in 1..cs[k].count :
                       ret[e].contacts[i] = Contact(cs[k], i)
        /\ \A k \in 1..Len(cs) :
             cs[k].count = 0 =>
               \A e \in 1..Len(ret) :
                 \/ ret[e].model1 # cs[k].collision1.model
                 \/ ret[e].model2 # cs[k].collision2.model

\* C17 witness: GetContactInfo(m1, m2) has returned the entry of a contact
\* that has fewer contact points than its arrays have entries.
C17_Witness ==
  /\ alive
  /\ Loaded("a1")
  /\ call.op = "GetContactInfo(m1,m2)"
  /\ Len(call.ret) = 1
  /\ Len(call.ret[1].contacts) = 1
  /\ ManagerContacts("a1")[1].count < MaxPoints

====
